---------------------------- MODULE Spec2Model ----------------------------
(***************************************************************************)
(* A model of the Hand Hockey bot: the action resolver (GameLogic), the   *)
(* in-memory MatchState and the persistence layer (DatabaseManager).       *)
(*                                                                         *)
(* Python strings are modelled as sequences of one-character strings, so   *)
(* that str.upper() and str.lower() are computed character by character.  *)
(* Each component has its own specification; the variables of the other   *)
(* components stay at their initial values under it.                       *)
(***************************************************************************)
EXTENDS Integers, Sequences, FiniteSets, TLC

VARIABLES
    rpc, rcall, rret,               \* GameLogic: call state, the call, its return value
    score, possession, turn_count,  \* MatchState fields
    current_scenario, match_time,
    status, stats,                  \* ... stats maps a team to its inner dict object
    heap,                           \* the inner dict objects, by reference
    summary,                        \* the summary last returned by get_match_summary
    max_retries, attempt, ipc,      \* DatabaseManager.initialize: loop state
    ipool, sleeps, attempts,        \* ... pool field, sleeps done, attempts made
    pool,                           \* DatabaseManager.pool
    players, matches, match_players,\* the store's rows
    dret,                           \* DatabaseManager: the last call's outcome
    tpc, tcall, now, progress, tret,\* timeout_handler: position, call, clock, work done, outcome
    hpc, hcall, herror, hframes,    \* handle_command_error: call state, the call, the error in hand, frames in use
    sent, errlog, hret,             \* ... the messages sent on ctx, the error log, the outcome
    max_size, apc, in_use           \* the pool: its bound, each caller's position, connections out

rvars == <<rpc, rcall, rret>>
mvars == <<score, possession, turn_count, current_scenario, match_time,
           status, stats, heap, summary>>
ivars == <<max_retries, attempt, ipc, ipool, sleeps, attempts>>
dvars == <<pool, players, matches, match_players, dret>>
tvars == <<tpc, tcall, now, progress, tret>>
hvars == <<hpc, hcall, herror, hframes, sent, errlog, hret>>
cvars == <<max_size, apc, in_use>>
xvars == <<tvars, hvars, cvars>>
vars == <<rvars, mvars, ivars, dvars, xvars>>

-----------------------------------------------------------------------------
(* Python str: upper(), lower() *)

Lowers == <<"a","b","c","d","e","f","g","h","i","j","k","l","m",
            "n","o","p","q","r","s","t","u","v","w","x","y","z">>
Uppers == <<"A","B","C","D","E","F","G","H","I","J","K","L","M",
            "N","O","P","Q","R","S","T","U","V","W","X","Y","Z">>

upper_char(c) ==
    IF \E i \in 1..Len(Lowers) : Lowers[i] = c
    THEN Uppers[CHOOSE i \in 1..Len(Lowers) : Lowers[i] = c]
    ELSE c

lower_char(c) ==
    IF \E i \in 1..Len(Uppers) : Uppers[i] = c
    THEN Lowers[CHOOSE i \in 1..Len(Uppers) : Uppers[i] = c]
    ELSE c

upper(s) == [i \in 1..Len(s) |-> upper_char(s[i])]
lower(s) == [i \in 1..Len(s) |-> lower_char(s[i])]

\* Role names
R_ST  == <<"S","T">>
R_MF  == <<"M","F">>
R_DEF == <<"D","E","F">>
R_GK  == <<"G","K">>
R_ANY == <<"A","N","Y">>

\* Scenario names
dribbling    == <<"d","r","i","b","b","l","i","n","g">>
passing      == <<"p","a","s","s","i","n","g">>
shooting     == <<"s","h","o","o","t","i","n","g">>
quick_pass   == <<"q","u","i","c","k","_","p","a","s","s">>
corner_kick  == <<"c","o","r","n","e","r","_","k","i","c","k">>
interception == <<"i","n","t","e","r","c","e","p","t","i","o","n">>
long_shot    == <<"l","o","n","g","_","s","h","o","t">>
tackle       == <<"t","a","c","k","l","e">>
default      == <<"d","e","f","a","u","l","t">>

-----------------------------------------------------------------------------
(* GameLogic.get_action_range *)

\* The static table, as a sequence of <<key, range>> in source order.
ranges == <<
    << <<R_ST,  R_DEF, dribbling>>,    <<1, 3>> >>,
    << <<R_ST,  R_MF,  dribbling>>,    <<1, 3>> >>,
    << <<R_MF,  R_DEF, passing>>,      <<1, 3>> >>,
    << <<R_ST,  R_GK,  shooting>>,     <<1, 6>> >>,
    << <<R_ST,  R_MF,  quick_pass>>,   <<1, 2>> >>,
    << <<R_ST,  R_DEF, corner_kick>>,  <<4, 6>> >>,
    << <<R_GK,  R_ANY, interception>>, <<1, 3>> >>,
    << <<R_MF,  R_GK,  long_shot>>,    <<2, 5>> >>,
    << <<R_DEF, R_ST,  tackle>>,       <<1, 4>> >>,
    << <<R_ANY, R_ANY, default>>,      <<1, 3>> >> >>

\* dict.get(key, dflt) on the table
ranges_get(key, dflt) ==
    IF \E i \in 1..Len(ranges) : ranges[i][1] = key
    THEN ranges[CHOOSE i \in 1..Len(ranges) : ranges[i][1] = key][2]
    ELSE dflt

range_key_no_lower(attacker_role, defender_role, scenario) ==
    <<upper(attacker_role), upper(defender_role), scenario>>

\* key = (attacker_role.upper(), defender_role.upper(), scenario.lower())
range_key(attacker_role, defender_role, scenario) ==
    <<upper(attacker_role), upper(defender_role), lower(scenario)>>

get_action_range(attacker_role, defender_role, scenario) ==
    ranges_get(range_key(attacker_role, defender_role, scenario),
               ranges_get(<<R_ANY, R_ANY, default>>, <<>>))

-----------------------------------------------------------------------------
(* GameLogic.evaluate_action *)

\* valid_range[0] <= action <= valid_range[1] (Python tuples are 0-based)
in_range_strict(valid_range, action) ==
    valid_range[1] <= action /\ action < valid_range[2]

in_range(valid_range, action) ==
    valid_range[1] <= action /\ action <= valid_range[2]

\* The f-string of the invalid_action outcome, as its parts.
invalid_description(role, valid_range) ==
    <<"Invalid action for ", role, ". Must be between ",
      valid_range[1], "-", valid_range[2]>>

invalid_action(role, valid_range) ==
    [result      |-> "invalid_action",
     description |-> invalid_description(role, valid_range),
     success     |-> FALSE]

same_number_no_foul(attacker_role, defender_role) ==
    IF upper(defender_role) = R_GK
    THEN [result |-> "save",
          description |-> <<"Goalkeeper makes a crucial save!">>,
          success |-> FALSE, next_action |-> "corner_kick"]
    ELSE [result |-> "interception",
          description |-> <<"Ball intercepted! Possession changes.">>,
          success |-> FALSE, next_action |-> "possession_change"]

\* attacker_action == defender_action
same_number(attacker_role, defender_role) ==
    IF upper(defender_role) = R_GK
    THEN [result |-> "save",
          description |-> <<"Goalkeeper makes a crucial save!">>,
          success |-> FALSE, next_action |-> "corner_kick"]
    ELSE IF upper(attacker_role) = R_ST /\ upper(defender_role) = R_DEF
    THEN [result |-> "foul",
          description |-> <<"Defensive foul committed!">>,
          success |-> TRUE, next_action |-> "free_kick"]
    ELSE [result |-> "interception",
          description |-> <<"Ball intercepted! Possession changes.">>,
          success |-> FALSE, next_action |-> "possession_change"]

attacker_wins_any_goal(defender_role, scenario) ==
    IF upper(defender_role) = R_GK
    THEN [result |-> "goal",
          description |-> <<"GOAL! What a fantastic strike!">>,
          success |-> TRUE, next_action |-> "kickoff"]
    ELSE [result |-> "success",
          description |-> <<"Action successful! Attacker advances.">>,
          success |-> TRUE, next_action |-> "continue_attack"]

\* attacker_action > defender_action; the scenario is compared as given
attacker_wins(defender_role, scenario) ==
    IF scenario = shooting /\ upper(defender_role) = R_GK
    THEN [result |-> "goal",
          description |-> <<"GOAL! What a fantastic strike!">>,
          success |-> TRUE, next_action |-> "kickoff"]
    ELSE [result |-> "success",
          description |-> <<"Action successful! Attacker advances.">>,
          success |-> TRUE, next_action |-> "continue_attack"]

defender_wins_exact_case(defender_role) ==
    IF defender_role = R_GK
    THEN [result |-> "save",
          description |-> <<"Great save by the goalkeeper!">>,
          success |-> FALSE, next_action |-> "goalkeeper_possession"]
    ELSE [result |-> "blocked",
          description |-> <<"Action blocked by defender!">>,
          success |-> FALSE, next_action |-> "possession_change"]

\* attacker_action < defender_action
defender_wins(defender_role) ==
    IF upper(defender_role) = R_GK
    THEN [result |-> "save",
          description |-> <<"Great save by the goalkeeper!">>,
          success |-> FALSE, next_action |-> "goalkeeper_possession"]
    ELSE [result |-> "blocked",
          description |-> <<"Action blocked by defender!">>,
          success |-> FALSE, next_action |-> "possession_change"]

evaluate_action(attacker_action, defender_action, attacker_role, defender_role, scenario) ==
    LET valid_range == get_action_range(attacker_role, defender_role, scenario)
    IN  IF ~in_range(valid_range, attacker_action)
        THEN invalid_action(attacker_role, valid_range)
        ELSE IF ~in_range(valid_range, defender_action)
        THEN invalid_action(defender_role, valid_range)
        ELSE IF attacker_action = defender_action
        THEN same_number(attacker_role, defender_role)
        ELSE IF attacker_action > defender_action
        THEN attacker_wins(defender_role, scenario)
        ELSE defender_wins(defender_role)

-----------------------------------------------------------------------------
(* GameLogic.validate_team_formation *)

required_positions_st_first == <<R_ST, R_GK, R_DEF, R_MF>>

\* The keys of required_positions in insertion order; every count is 1.
required_positions == <<R_GK, R_DEF, R_MF, R_ST>>

required_count == 1

\* position_counts.get(position, 0) after the counting loop
position_counts(team_players, position) ==
    Cardinality({p \in DOMAIN team_players : upper(team_players[p]) = position})

validate_team_formation(team_players) ==
    LET missing == {i \in 1..Len(required_positions) :
                      position_counts(team_players, required_positions[i])
                        < required_count}
    IN  IF missing # {}
        THEN LET first == CHOOSE i \in missing : \A j \in missing : i <= j
             IN  <<FALSE, <<"Team needs at least ", required_count, " ",
                            required_positions[first]>> >>
        ELSE <<TRUE, <<"Formation is valid">> >>

-----------------------------------------------------------------------------
(* The resolver's specification: one call of a pure function per behaviour *)

\* ---- calculate_success_probability; probabilities in hundredths ----

free_kick == <<"f","r","e","e","_","k","i","c","k">>
penalty   == <<"p","e","n","a","l","t","y">>

\* role_advantages.get(key, 0.5)
role_advantages(key) ==
    IF key = <<R_ST, R_DEF>> THEN 60
    ELSE IF key = <<R_ST, R_MF>> THEN 70
    ELSE IF key = <<R_ST, R_GK>> THEN 40
    ELSE IF key = <<R_MF, R_DEF>> THEN 50
    ELSE IF key = <<R_MF, R_GK>> THEN 30
    ELSE IF key = <<R_DEF, R_ST>> THEN 40
    ELSE 50

\* scenario_modifiers.get(scenario, 0.0)
scenario_modifiers(scenario) ==
    IF scenario = shooting THEN -10
    ELSE IF scenario = dribbling THEN 0
    ELSE IF scenario = passing THEN 10
    ELSE IF scenario = corner_kick THEN 20
    ELSE IF scenario = free_kick THEN 15
    ELSE IF scenario = penalty THEN 80
    ELSE 0

min(a, b) == IF a <= b THEN a ELSE b
max(a, b) == IF a >= b THEN a ELSE b

\* A clamp whose upper bound is 1.0
clamp_to_one(x) == max(10, min(100, x))

\* max(0.1, min(0.9, x))
clamp(x) == max(10, min(90, x))

calculate_success_probability(attacker_role, defender_role, scenario) ==
    LET key == <<upper(attacker_role), upper(defender_role)>>
        base_prob == role_advantages(key)
        scenario_mod == scenario_modifiers(lower(scenario))
    IN  clamp(base_prob + scenario_mod)

MaxAction == 7
MaxPlayers == 4

ActionInputs == 0..MaxAction

RoleInputs ==
    {R_ST, <<"s","t">>, R_MF, R_DEF, <<"d","e","f">>, R_GK, <<"g","K">>, R_ANY}

ScenarioInputs ==
    {dribbling, passing, shooting, quick_pass, corner_kick, interception,
     long_shot, tackle, default,
     upper(shooting), <<"T","a","c","k","l","e">>,
     penalty}

ProbabilityScenarios == ScenarioInputs \cup {free_kick, upper(penalty)}

RosterRoles ==
    {R_GK, <<"g","k">>, R_DEF, R_MF, <<"m","f">>, R_ST, <<"C","B">>}

Rosters ==
    UNION {[ps -> RosterRoles] : ps \in SUBSET (1..MaxPlayers)}

ResolverCalls ==
    [op : {"evaluate_action"},
     attacker_action : ActionInputs, defender_action : ActionInputs,
     attacker_role : RoleInputs, defender_role : RoleInputs,
     scenario : ScenarioInputs]
    \cup
    [op : {"get_action_range"},
     attacker_role : RoleInputs, defender_role : RoleInputs,
     scenario : ScenarioInputs]
    \cup
    [op : {"validate_team_formation"}, team_players : Rosters]
    \cup
    [op : {"calculate_success_probability"},
     attacker_role : RoleInputs, defender_role : RoleInputs,
     scenario : ProbabilityScenarios]

RIdle ==
    /\ rpc = "idle"
    /\ rcall = [op |-> "none"]
    /\ rret = <<>>

RInit ==
    /\ rpc = "call"
    /\ rcall \in ResolverCalls
    /\ rret = <<>>

EvaluateAction ==
    /\ rpc = "call"
    /\ rcall.op = "evaluate_action"
    /\ rret' = evaluate_action(rcall.attacker_action, rcall.defender_action,
                               rcall.attacker_role, rcall.defender_role,
                               rcall.scenario)
    /\ rpc' = "return"
    /\ UNCHANGED <<rcall, mvars, ivars, dvars, xvars>>

GetActionRange ==
    /\ rpc = "call"
    /\ rcall.op = "get_action_range"
    /\ rret' = get_action_range(rcall.attacker_role, rcall.defender_role,
                                rcall.scenario)
    /\ rpc' = "return"
    /\ UNCHANGED <<rcall, mvars, ivars, dvars, xvars>>

CalculateSuccessProbability ==
    /\ rpc = "call"
    /\ rcall.op = "calculate_success_probability"
    /\ rret' = calculate_success_probability(rcall.attacker_role,
                                             rcall.defender_role, rcall.scenario)
    /\ rpc' = "return"
    /\ UNCHANGED <<rcall, mvars, ivars, dvars, xvars>>

ValidateTeamFormation ==
    /\ rpc = "call"
    /\ rcall.op = "validate_team_formation"
    /\ rret' = validate_team_formation(rcall.team_players)
    /\ rpc' = "return"
    /\ UNCHANGED <<rcall, mvars, ivars, dvars, xvars>>

-----------------------------------------------------------------------------
(* MatchState *)

MaxScore == 2
MaxStat == 1

Teams == {"A", "B"}
StatTypes == {"shots", "saves", "fouls", "corners"}
TeamInputs == Teams \cup {"C"}
StatInputs == StatTypes \cup {"goals"}

\* MatchState.__init__
MInit ==
    /\ score = [t \in Teams |-> 0]
    /\ possession = "A"
    /\ current_scenario = "kickoff"
    /\ turn_count = 0
    /\ match_time = 0
    /\ status = "active"
    /\ stats = [t \in Teams |-> <<"dict", t>>]
    /\ heap = [r \in {<<"dict", t>> : t \in Teams} |-> [k \in StatTypes |-> 0]]
    /\ summary = <<>>

\* A team's counters, read through the reference a stats mapping holds
team_stats(stats_map, t) == heap[stats_map[t]]

team_total(t) ==
    LET d == team_stats(stats, t)
    IN  d["shots"] + d["saves"] + d["fouls"] + d["corners"]

update_score(team, points) ==
    /\ team \in DOMAIN score => score[team] + points <= MaxScore
    /\ score' = IF team \in DOMAIN score
                THEN [score EXCEPT ![team] = @ + points]
                ELSE score
    /\ UNCHANGED <<possession, turn_count, current_scenario, match_time,
                   status, stats, heap, summary>>

switch_possession ==
    /\ possession' = IF possession = "A" THEN "B" ELSE "A"
    /\ UNCHANGED <<score, turn_count, current_scenario, match_time,
                   status, stats, heap, summary>>

\* update_stats as it would act if both teams' counters were bumped together
update_stats_every_team(team, stat_type, value) ==
    LET known == team \in DOMAIN stats /\ stat_type \in DOMAIN heap[stats[team]]
    IN  /\ known => team_total(team) + value <= MaxStat
        /\ heap' = IF known
                   THEN [r \in DOMAIN heap |->
                            [heap[r] EXCEPT ![stat_type] = @ + value]]
                   ELSE heap
        /\ UNCHANGED <<score, possession, turn_count, current_scenario,
                       match_time, status, stats, summary>>

\* self.stats[team][stat_type] += value mutates the inner dict in place
update_stats(team, stat_type, value) ==
    LET known == team \in DOMAIN stats /\ stat_type \in DOMAIN heap[stats[team]]
    IN  /\ known => team_total(team) + value <= MaxStat
        /\ heap' = IF known
                   THEN [heap EXCEPT ![stats[team]][stat_type] = @ + value]
                   ELSE heap
        /\ UNCHANGED <<score, possession, turn_count, current_scenario,
                       match_time, status, stats, summary>>

\* dict.copy() is shallow: score's values are ints, copied by value;
\* stats' values are the inner dicts, copied by reference.
get_match_summary ==
    /\ summary' = << [score      |-> score,
                      possession |-> possession,
                      scenario   |-> current_scenario,
                      time       |-> match_time,
                      status     |-> status,
                      stats      |-> stats,
                      turn_count |-> turn_count] >>
    /\ UNCHANGED <<score, possession, turn_count, current_scenario,
                   match_time, status, stats, heap>>

UpdateScore ==
    /\ \E team \in TeamInputs, points \in 1..MaxScore : update_score(team, points)
    /\ UNCHANGED <<rvars, ivars, dvars, xvars>>

SwitchPossession ==
    /\ switch_possession
    /\ UNCHANGED <<rvars, ivars, dvars, xvars>>

UpdateStats ==
    /\ \E team \in TeamInputs, stat_type \in StatInputs, value \in 1..MaxStat :
          update_stats(team, stat_type, value)
    /\ UNCHANGED <<rvars, ivars, dvars, xvars>>

GetMatchSummary ==
    /\ get_match_summary
    /\ UNCHANGED <<rvars, ivars, dvars, xvars>>

\* What a holder of a summary reads from it
summary_view(s) ==
    [score      |-> s.score,
     possession |-> s.possession,
     stats      |-> [t \in DOMAIN s.stats |-> team_stats(s.stats, t)],
     turn_count |-> s.turn_count]

-----------------------------------------------------------------------------
(* DatabaseManager.initialize: the retry loop, one step per await *)

MaxRetries == 5

\* Python's None
None == "<None>"

IIdle ==
    /\ max_retries = 0
    /\ attempt = 0
    /\ ipc = "idle"
    /\ ipool = None
    /\ sleeps = <<>>
    /\ attempts = 0

\* initialize(max_retries) is called on a fresh manager (__init__: pool = None)
IInit ==
    /\ max_retries \in 0..MaxRetries
    /\ attempt = 0
    /\ ipc = "for"
    /\ ipool = None
    /\ sleeps = <<>>
    /\ attempts = 0

\* attempt < max_retries - 1
retry_left(a, m) == a < m - 1

\* wait_time = 2 ** attempt
wait_time(a) == 2 ^ a

\* for attempt in range(max_retries): the next iteration, or the end of the loop,
\* after which the function returns None
ForAttempt ==
    /\ ipc = "for"
    /\ ipc' = IF attempt < max_retries THEN "try" ELSE "returned"
    /\ UNCHANGED <<max_retries, attempt, ipool, sleeps, attempts>>
    /\ UNCHANGED <<rvars, mvars, dvars, xvars>>

\* asyncpg.create_pool succeeds: self.pool is assigned
CreatePoolOk ==
    /\ ipc = "try"
    /\ ipool' = "Pool"
    /\ attempts' = attempts + 1
    /\ ipc' = "create_tables"
    /\ UNCHANGED <<max_retries, attempt, sleeps>>
    /\ UNCHANGED <<rvars, mvars, dvars, xvars>>

\* asyncpg.create_pool raises: self.pool keeps its old value
CreatePoolFail ==
    /\ ipc = "try"
    /\ attempts' = attempts + 1
    /\ ipc' = "except"
    /\ UNCHANGED <<max_retries, attempt, ipool, sleeps>>
    /\ UNCHANGED <<rvars, mvars, dvars, xvars>>

\* create_tables succeeds: return
CreateTablesOk ==
    /\ ipc = "create_tables"
    /\ ipc' = "returned"
    /\ UNCHANGED <<max_retries, attempt, ipool, sleeps, attempts>>
    /\ UNCHANGED <<rvars, mvars, dvars, xvars>>

CreateTablesFail ==
    /\ ipc = "create_tables"
    /\ ipc' = "except"
    /\ UNCHANGED <<max_retries, attempt, ipool, sleeps, attempts>>
    /\ UNCHANGED <<rvars, mvars, dvars, xvars>>

\* except Exception: sleep and go on to the next attempt, or re-raise
Except ==
    /\ ipc = "except"
    /\ IF retry_left(attempt, max_retries)
       THEN /\ sleeps' = Append(sleeps, wait_time(attempt))
            /\ attempt' = attempt + 1
            /\ ipc' = "for"
       ELSE /\ ipc' = "raised"
            /\ UNCHANGED <<attempt, sleeps>>
    /\ UNCHANGED <<max_retries, ipool, attempts>>
    /\ UNCHANGED <<rvars, mvars, dvars, xvars>>

-----------------------------------------------------------------------------
(* DatabaseManager: the store and its operations *)

MaxRows == 4

UserIds == {1, 2}
MatchIds == {"M1", "M2"}
ChannelIds == {10}
Usernames == {"ann", "bob"}
DisplayNames == {None, "", "Ann"}
\* <<team, role>> of an add_player_to_match call
JoinInputs ==
    { <<"A", "GK">>, <<"B", None>>, <<None, None>>, <<"C", "GK">>, <<"A", "XX">> }
StatusInputs == {"waiting", "ongoing", "ended"}
\* The username a member joins under
JoinNames == {"ann"}

\* players maps a user_id (the primary key) to its row; matches and
\* match_players keep their rows in insertion order (created_at, joined_at).
DInit ==
    /\ pool = None
    /\ players = <<>>
    /\ matches = <<>>
    /\ match_players = <<>>
    /\ dret = [op |-> "none", kind |-> "none", type |-> "None", value |-> None]

\* A call's outcome: the value returned, tagged with its Python type (None,
\* dict, list, bool), or the exception raised.
returns(op, type, v) == [op |-> op, kind |-> "return", type |-> type, value |-> v]
raises(op, e) == [op |-> op, kind |-> "raise", error |-> e]

\* self.pool.acquire() on a manager whose pool is None
NoPool == "AttributeError"

\* The global init_database(): initialize() with the default retries.  It ends
\* with the pool created and the tables present, or raises with the pool unset
\* (the stepwise loop is ForAttempt .. Except above).
InitDatabase ==
    /\ pool = None
    /\ \E ok \in BOOLEAN :
          IF ok
          THEN pool' = "Pool" /\ dret' = returns("initialize", "None", None)
          ELSE pool' = None /\ dret' = raises("initialize", "Exception")
    /\ UNCHANGED <<players, matches, match_players>>
    /\ UNCHANGED <<rvars, mvars, ivars, xvars>>

player_ids == DOMAIN players

\* The model explores stores of at most MaxRows rows in all.
total_rows(ps, ms, mps) == Cardinality(DOMAIN ps) + Len(ms) + Len(mps)

match_ids == {matches[i].match_id : i \in DOMAIN matches}

match_row(match_id) ==
    matches[CHOOSE i \in DOMAIN matches : matches[i].match_id = match_id]

\* "or" that keeps its left operand
or_else_first(a, b) == IF a = b THEN b ELSE a

\* display_name or username
or_else(a, b) == IF a = None \/ a = "" THEN b ELSE a

\* The counters of the players table, and rating (DECIMAL(4,2), in hundredths)
Counters == {"matches_played", "matches_won", "matches_lost", "goals",
             "assists", "saves", "tackles", "interceptions", "hat_tricks",
             "mvps"}

new_player(user_id, username, display_name) ==
    [c \in Counters |-> 0] @@
    [user_id |-> user_id, username |-> username,
     display_name |-> display_name, rating |-> 600]

\* INSERT ... ON CONFLICT (user_id) DO UPDATE SET username, display_name:
\* a new row gets the column defaults, an existing row keeps its counters
upsert_player(user_id, username, display_name) ==
    [u \in player_ids \cup {user_id} |->
        IF u # user_id
        THEN players[u]
        ELSE IF u \in player_ids
        THEN [players[u] EXCEPT !.username = username,
                                !.display_name = display_name]
        ELSE new_player(user_id, username, display_name)]

create_or_update_player(user_id, username, display_name) ==
    IF pool = None
    THEN /\ dret' = raises("create_or_update_player", NoPool)
         /\ UNCHANGED <<pool, players, matches, match_players>>
    ELSE LET ps == upsert_player(user_id, username,
                                 or_else(display_name, username))
         IN  /\ total_rows(ps, matches, match_players) <= MaxRows
             /\ players' = ps
             /\ dret' = returns("create_or_update_player", "dict", ps[user_id])
             /\ UNCHANGED <<pool, matches, match_players>>

\* The columns update_match_score may write
ScoreColumns == {"team_a_score", "team_b_score", "score_a", "score_b",
                 "shots_a", "shots_b", "saves_a", "saves_b"}

\* INSERT INTO matches (match_id, host_id, channel_id): the column defaults
new_match(match_id, host_id, channel_id) ==
    [c \in ScoreColumns |-> 0] @@
    [match_id |-> match_id, host_id |-> host_id, channel_id |-> channel_id,
     status |-> "waiting", team_a_name |-> "Team A", team_b_name |-> "Team B"]

create_match(match_id, host_id, channel_id) ==
    IF pool = None
    THEN /\ dret' = raises("create_match", NoPool)
         /\ UNCHANGED <<pool, players, matches, match_players>>
    ELSE IF match_id \in match_ids
    THEN /\ dret' = raises("create_match", "UniqueViolationError")
         /\ UNCHANGED <<pool, players, matches, match_players>>
    ELSE LET row == new_match(match_id, host_id, channel_id)
         IN  /\ total_rows(players, matches, match_players) < MaxRows
             /\ matches' = Append(matches, row)
             /\ dret' = returns("create_match", "dict", row)
             /\ UNCHANGED <<pool, players, match_players>>

\* A membership test that never finds the member
in_match_never(match_id, user_id) ==
    \E i \in DOMAIN match_players :
        /\ match_players[i].match_id = match_id
        /\ match_players[i].user_id = user_id
        /\ i > Len(match_players)

in_match(match_id, user_id) ==
    \E i \in DOMAIN match_players :
        /\ match_players[i].match_id = match_id
        /\ match_players[i].user_id = user_id

\* The player row is written on its own connection before the INSERT into
\* match_players, and stays written when the INSERT fails.
add_player_to_match(match_id, user_id, username, team, role) ==
    IF pool = None
    THEN /\ dret' = raises("add_player_to_match", NoPool)
         /\ UNCHANGED <<pool, players, matches, match_players>>
    ELSE /\ players' = upsert_player(user_id, username, username)
         /\ UNCHANGED <<pool, matches>>
         /\ IF team \notin {"A", "B", None} \/ role \notin {"ST", "MF", "DEF", "GK", None}
            THEN /\ dret' = raises("add_player_to_match", "CheckViolationError")
                 /\ UNCHANGED match_players
            ELSE IF in_match(match_id, user_id)
            THEN /\ dret' = returns("add_player_to_match", "bool", FALSE)
                 /\ UNCHANGED match_players
            ELSE IF match_id \notin match_ids
            THEN /\ dret' = raises("add_player_to_match", "ForeignKeyViolationError")
                 /\ UNCHANGED match_players
            ELSE /\ match_players' = Append(match_players,
                        [match_id |-> match_id, user_id |-> user_id,
                         team |-> team, role |-> role, is_captain |-> FALSE])
                 /\ dret' = returns("add_player_to_match", "bool", TRUE)
         /\ total_rows(players', matches', match_players') <= MaxRows

Reverse(seq) == [i \in 1..Len(seq) |-> seq[Len(seq) + 1 - i]]

is_active(row) == row.status \in {"waiting", "ongoing"}

\* What get_player returns in the current state
get_player_result(user_id) ==
    IF pool = None
    THEN returns("get_player", "None", None)
    ELSE IF user_id \in player_ids
    THEN returns("get_player", "dict", players[user_id])
    ELSE returns("get_player", "None", None)

get_player(user_id) ==
    /\ dret' = get_player_result(user_id)
    /\ UNCHANGED <<pool, players, matches, match_players>>

\* What get_match returns in the current state
get_match_result(match_id) ==
    IF pool = None
    THEN returns("get_match", "None", None)
    ELSE IF match_id \in match_ids
    THEN returns("get_match", "dict", match_row(match_id))
    ELSE returns("get_match", "None", None)

get_match(match_id) ==
    /\ dret' = get_match_result(match_id)
    /\ UNCHANGED <<pool, players, matches, match_players>>

\* ORDER BY created_at DESC
get_active_matches ==
    /\ dret' = IF pool = None
               THEN raises("get_active_matches", NoPool)
               ELSE returns("get_active_matches", "list",
                            Reverse(SelectSeq(matches, is_active)))
    /\ UNCHANGED <<pool, players, matches, match_players>>

\* LIMIT 1 without ORDER BY: any one of the host's active matches
get_user_active_match(user_id) ==
    LET hosted == {i \in DOMAIN matches :
                     matches[i].host_id = user_id /\ is_active(matches[i])}
    IN  /\ IF pool = None
           THEN dret' = raises("get_user_active_match", NoPool)
           ELSE IF hosted = {}
           THEN dret' = returns("get_user_active_match", "None", None)
           ELSE \E i \in hosted :
                   dret' = returns("get_user_active_match", "dict", matches[i])
        /\ UNCHANGED <<pool, players, matches, match_players>>

\* mp.* JOIN players p, ORDER BY mp.team, mp.joined_at (NULL teams last)
joined_row(mp) ==
    [match_id |-> mp.match_id, user_id |-> mp.user_id, team |-> mp.team,
     role |-> mp.role, is_captain |-> mp.is_captain,
     username |-> players[mp.user_id].username,
     display_name |-> players[mp.user_id].display_name]

match_players_of(match_id, team) ==
    LET of_team(mp) == mp.match_id = match_id /\ mp.team = team
        rows == SelectSeq(match_players, of_team)
    IN  [i \in 1..Len(rows) |-> joined_row(rows[i])]

\* What get_match_players returns (or raises) in the current state
get_match_players_result(match_id) ==
    IF pool = None
    THEN raises("get_match_players", NoPool)
    ELSE returns("get_match_players", "list",
                 match_players_of(match_id, "A")
                   \o match_players_of(match_id, "B")
                   \o match_players_of(match_id, None))

get_match_players(match_id) ==
    /\ dret' = get_match_players_result(match_id)
    /\ UNCHANGED <<pool, players, matches, match_players>>

\* The rows of a sequence that do not satisfy keep are deleted
without_match(rows, match_id) ==
    LET other(r) == r.match_id # match_id IN SelectSeq(rows, other)

without_member(rows, match_id, user_id) ==
    LET other(r) == ~(r.match_id = match_id /\ r.user_id = user_id)
    IN SelectSeq(rows, other)

\* delete_match with the status tag of the DELETE ignored
delete_match_ignoring_count(match_id) ==
    IF pool = None
    THEN /\ dret' = raises("delete_match", NoPool)
         /\ UNCHANGED <<pool, players, matches, match_players>>
    ELSE /\ matches' = without_match(matches, match_id)
         /\ match_players' = without_match(match_players, match_id)
         /\ dret' = returns("delete_match", "bool", TRUE)
         /\ UNCHANGED <<pool, players>>

\* delete_match on a schema without ON DELETE CASCADE on match_players
delete_match_no_cascade(match_id) ==
    IF pool = None
    THEN /\ dret' = raises("delete_match", NoPool)
         /\ UNCHANGED <<pool, players, matches, match_players>>
    ELSE /\ matches' = without_match(matches, match_id)
         /\ dret' = returns("delete_match", "bool", match_id \in match_ids)
         /\ UNCHANGED <<pool, players, match_players>>

\* DELETE FROM matches WHERE match_id = $1; the match_players rows of the
\* match go with it (REFERENCES matches(match_id) ON DELETE CASCADE).
delete_match(match_id) ==
    IF pool = None
    THEN /\ dret' = raises("delete_match", NoPool)
         /\ UNCHANGED <<pool, players, matches, match_players>>
    ELSE /\ matches' = without_match(matches, match_id)
         /\ match_players' = without_match(match_players, match_id)
         /\ dret' = returns("delete_match", "bool", match_id \in match_ids)
         /\ UNCHANGED <<pool, players>>

\* The matches with one column of the row of match_id set
set_match_column(match_id, column, v) ==
    [i \in DOMAIN matches |->
        IF matches[i].match_id = match_id
        THEN [matches[i] EXCEPT ![column] = v]
        ELSE matches[i]]

\* UPDATE matches SET status = $1 WHERE match_id = $2
update_match_status(match_id, new_status) ==
    IF pool = None
    THEN /\ dret' = raises("update_match_status", NoPool)
         /\ UNCHANGED <<pool, players, matches, match_players>>
    ELSE /\ matches' = set_match_column(match_id, "status", new_status)
         /\ dret' = returns("update_match_status", "bool", match_id \in match_ids)
         /\ UNCHANGED <<pool, players, match_players>>

\* UPDATE matches SET host_id = $1 WHERE match_id = $2
update_match_host(match_id, new_host_id) ==
    IF pool = None
    THEN /\ dret' = raises("update_match_host", NoPool)
         /\ UNCHANGED <<pool, players, matches, match_players>>
    ELSE /\ matches' = set_match_column(match_id, "host_id", new_host_id)
         /\ dret' = returns("update_match_host", "bool", match_id \in match_ids)
         /\ UNCHANGED <<pool, players, match_players>>

\* DELETE FROM match_players WHERE match_id = $1 AND user_id = $2
remove_player_from_match(match_id, user_id) ==
    IF pool = None
    THEN /\ dret' = raises("remove_player_from_match", NoPool)
         /\ UNCHANGED <<pool, players, matches, match_players>>
    ELSE /\ match_players' = without_member(match_players, match_id, user_id)
         /\ dret' = returns("remove_player_from_match", "bool",
                            in_match(match_id, user_id))
         /\ UNCHANGED <<pool, players, matches>>

\* ---- the updates whose SET list is built from the call ----

\* The statement a call sent to the server: the SET list as <<column,
\* parameter number>> pairs, the WHERE columns likewise, and the values passed
\* for $1, $2, ...; a call's outcome keeps the text, NoStmt when it sent none.
NoStmt == [table |-> "none", set |-> <<>>, where |-> <<>>]

\* The text of a query, without the values passed with it
text_of(query) == [table |-> query.table, set |-> query.set, where |-> query.where]

with_stmt(r, stmt) == r @@ [stmt |-> stmt]

\* Keyword arguments are a sequence of [key, value, iterable] in call order;
\* iterable is hasattr(value, '__iter__') and not isinstance(value, str).
kw(key, value) == [key |-> key, value |-> value, iterable |-> FALSE]
kw_list(key) == [key |-> key, value |-> <<1, 2>>, iterable |-> TRUE]

keys_of(kwargs) == {kwargs[i].key : i \in DOMAIN kwargs}

\* set_clauses: the i-th accepted field is "key = $i"
set_clauses(accepted) == [i \in DOMAIN accepted |-> <<accepted[i].key, i>>]

values_of(accepted) == [i \in DOMAIN accepted |-> accepted[i].value]

\* A row with the accepted fields assigned
assign(row, accepted) ==
    [c \in DOMAIN row |->
        IF c \in keys_of(accepted)
        THEN (CHOOSE f \in {accepted[i] : i \in DOMAIN accepted} : f.key = c).value
        ELSE row[c]]

\* The columns of players that a value of the call's type can be assigned to
PlayerColumns == Counters \cup {"rating"}

player_stats_query(user_id, stat_fields) ==
    LET scalar(f) == ~f.iterable
        accepted == SelectSeq(stat_fields, scalar)
        k == Len(accepted)
    IN  [table |-> "players",
        set |-> set_clauses(accepted) \o <<<<"updated_at", k + 1>>>>,
        where |-> <<<<"user_id", k + 2>>>>,
        values |-> values_of(accepted) \o <<"now", user_id>>]

update_player_stats(user_id, stat_fields) ==
    LET scalar(f) == ~f.iterable
        accepted == SelectSeq(stat_fields, scalar)
        k == Len(accepted)
        query == player_stats_query(user_id, stat_fields)
    IN  IF Len(stat_fields) = 0 \/ k = 0
        THEN /\ dret' = with_stmt(returns("update_player_stats", "bool", FALSE), NoStmt)
             /\ UNCHANGED <<pool, players, matches, match_players>>
        ELSE IF pool = None
        THEN /\ dret' = with_stmt(raises("update_player_stats", NoPool), NoStmt)
             /\ UNCHANGED <<pool, players, matches, match_players>>
        ELSE IF ~(keys_of(accepted) \subseteq PlayerColumns)
        THEN /\ dret' = with_stmt(raises("update_player_stats", "UndefinedColumnError"), text_of(query))
             /\ UNCHANGED <<pool, players, matches, match_players>>
        ELSE /\ players' = [u \in player_ids |->
                               IF u = user_id THEN assign(players[u], accepted)
                                              ELSE players[u]]
             /\ dret' = with_stmt(returns("update_player_stats", "bool",
                                          user_id \in player_ids), text_of(query))
             /\ UNCHANGED <<pool, matches, match_players>>

\* An allow-list that also lets a players counter through
allowed_fields_any_key == {"team_a_score", "team_b_score", "score_a", "score_b", "shots_a", "shots_b", "saves_a", "saves_b", "goals"}

allowed_fields == {"team_a_score", "team_b_score", "score_a", "score_b", "shots_a", "shots_b", "saves_a", "saves_b"}

\* The query of update_match_score with the match id bound to $k
match_score_query_where_k(match_id, score_data) ==
    LET allowed(f) == f.key \in allowed_fields
        accepted == SelectSeq(score_data, allowed)
        k == Len(accepted)
    IN  [table |-> "matches",
        set |-> set_clauses(accepted),
        where |-> <<<<"match_id", k>>>>,
        values |-> values_of(accepted) \o <<match_id>>]

match_score_query(match_id, score_data) ==
    LET allowed(f) == f.key \in allowed_fields
        accepted == SelectSeq(score_data, allowed)
        k == Len(accepted)
    IN  [table |-> "matches",
        set |-> set_clauses(accepted),
        where |-> <<<<"match_id", k + 1>>>>,
        values |-> values_of(accepted) \o <<match_id>>]

update_match_score(match_id, score_data) ==
    LET allowed(f) == f.key \in allowed_fields
        accepted == SelectSeq(score_data, allowed)
        k == Len(accepted)
        query == match_score_query(match_id, score_data)
    IN  IF Len(score_data) = 0 \/ k = 0
        THEN /\ dret' = with_stmt(returns("update_match_score", "bool", FALSE), NoStmt)
             /\ UNCHANGED <<pool, players, matches, match_players>>
        ELSE IF pool = None
        THEN /\ dret' = with_stmt(raises("update_match_score", NoPool), NoStmt)
             /\ UNCHANGED <<pool, players, matches, match_players>>
        ELSE /\ matches' = [i \in DOMAIN matches |->
                               IF matches[i].match_id = match_id
                               THEN assign(matches[i], accepted)
                               ELSE matches[i]]
             /\ dret' = with_stmt(returns("update_match_score", "bool",
                                          match_id \in match_ids), text_of(query))
             /\ UNCHANGED <<pool, players, match_players>>

\* The CHECK constraints of match_players, on a value that is not NULL
VALID_TEAMS == {"A", "B"}
VALID_ROLES == {"ST", "MF", "DEF", "GK"}

\* An optional argument is None or a value; is_captain, a boolean, is <<>> when
\* absent and <<b>> when given.
update_player_role(match_id, user_id, team, role, is_captain) ==
    LET accepted == (IF team # None THEN <<kw("team", team)>> ELSE <<>>)
                    \o (IF role # None THEN <<kw("role", role)>> ELSE <<>>)
                    \o (IF Len(is_captain) > 0
                        THEN <<kw("is_captain", is_captain[1])>> ELSE <<>>)
        k == Len(accepted)
        query == [table |-> "match_players",
                  set |-> set_clauses(accepted),
                  where |-> <<<<"match_id", k + 1>>, <<"user_id", k + 2>>>>,
                  values |-> values_of(accepted) \o <<match_id, user_id>>]
        target(r) == r.match_id = match_id /\ r.user_id = user_id
    IN  IF k = 0
        THEN /\ dret' = with_stmt(returns("update_player_role", "bool", FALSE), NoStmt)
             /\ UNCHANGED <<pool, players, matches, match_players>>
        ELSE IF pool = None
        THEN /\ dret' = with_stmt(raises("update_player_role", NoPool), NoStmt)
             /\ UNCHANGED <<pool, players, matches, match_players>>
        ELSE IF /\ in_match(match_id, user_id)
                /\ \/ team \notin VALID_TEAMS \cup {None}
                   \/ role \notin VALID_ROLES \cup {None}
        THEN /\ dret' = with_stmt(raises("update_player_role", "CheckViolationError"), text_of(query))
             /\ UNCHANGED <<pool, players, matches, match_players>>
        ELSE /\ match_players' = [i \in DOMAIN match_players |->
                                     IF target(match_players[i])
                                     THEN assign(match_players[i], accepted)
                                     ELSE match_players[i]]
             /\ dret' = with_stmt(returns("update_player_role", "bool",
                                          in_match(match_id, user_id)), text_of(query))
             /\ UNCHANGED <<pool, players, matches>>

\* The team-name columns of matches, as update_team_name spells a column:
\* "team_" + team.lower() + "_name"
team_name_column(team) == <<"team_">> \o lower(team) \o <<"_name">>
TeamNameColumns == {team_name_column(<<"a">>), team_name_column(<<"b">>)}

update_team_name(match_id, team, name) ==
    LET column == team_name_column(team)
        field == IF column = team_name_column(<<"a">>) THEN "team_a_name"
                                                       ELSE "team_b_name"
        query == [table |-> "matches",
                  set |-> <<<<column, 1>>>>,
                  where |-> <<<<"match_id", 2>>>>,
                  values |-> <<name, match_id>>]
    IN  IF pool = None
        THEN /\ dret' = with_stmt(raises("update_team_name", NoPool), NoStmt)
             /\ UNCHANGED <<pool, players, matches, match_players>>
        ELSE IF column \notin TeamNameColumns
        THEN /\ dret' = with_stmt(raises("update_team_name", "UndefinedColumnError"), text_of(query))
             /\ UNCHANGED <<pool, players, matches, match_players>>
        ELSE /\ matches' = set_match_column(match_id, field, name)
             /\ dret' = with_stmt(returns("update_team_name", "bool",
                                          match_id \in match_ids), text_of(query))
             /\ UNCHANGED <<pool, players, match_players>>

\* The keyword arguments the model calls the updates with
StatsInputs ==
    { <<>>,
      <<kw("goals", 5)>>,
      <<kw("goals", 5), kw("assists", 3), kw("rating", 850)>>,
      <<kw_list("achievements")>>,
      <<kw_list("achievements"), kw("assists", 3)>>,
      <<kw("nickname", 1)>> }

ScoreInputs ==
    { <<>>,
      <<kw("score_a", 3), kw("score_b", 2), kw("shots_a", 12)>>,
      <<kw("team_a_score", 3), kw("score_a", 3)>>,
      <<kw("goals", 9)>>,
      <<kw("goals", 9), kw("saves_b", 4)>> }

\* <<team, role, is_captain>> of an update_player_role call
RoleCallInputs ==
    { <<None, None, <<>>>>, <<"B", "GK", <<TRUE>>>>, <<"C", None, <<>>>>,
      <<None, None, <<TRUE>>>> }
TeamNameInputs == {<<"A">>, <<"b">>, <<"C">>}
NameInputs == {"Ice"}

UpdatePlayerStats ==
    /\ \E user_id \in UserIds, stat_fields \in StatsInputs :
          update_player_stats(user_id, stat_fields)
    /\ UNCHANGED <<rvars, mvars, ivars, xvars>>

UpdateMatchScore ==
    /\ \E match_id \in MatchIds, score_data \in ScoreInputs :
          update_match_score(match_id, score_data)
    /\ UNCHANGED <<rvars, mvars, ivars, xvars>>

UpdatePlayerRole ==
    /\ \E match_id \in MatchIds, user_id \in UserIds, call \in RoleCallInputs :
          update_player_role(match_id, user_id, call[1], call[2], call[3])
    /\ UNCHANGED <<rvars, mvars, ivars, xvars>>

UpdateTeamName ==
    /\ \E match_id \in MatchIds, team \in TeamNameInputs, name \in NameInputs :
          update_team_name(match_id, team, name)
    /\ UNCHANGED <<rvars, mvars, ivars, xvars>>

CreateOrUpdatePlayer ==
    /\ \E user_id \in UserIds, username \in Usernames, display_name \in DisplayNames :
          create_or_update_player(user_id, username, display_name)
    /\ UNCHANGED <<rvars, mvars, ivars, xvars>>

CreateMatch ==
    /\ \E match_id \in MatchIds, host_id \in UserIds, channel_id \in ChannelIds :
          create_match(match_id, host_id, channel_id)
    /\ UNCHANGED <<rvars, mvars, ivars, xvars>>

AddPlayerToMatch ==
    /\ \E match_id \in MatchIds, user_id \in UserIds, username \in JoinNames,
          join \in JoinInputs :
          add_player_to_match(match_id, user_id, username, join[1], join[2])
    /\ UNCHANGED <<rvars, mvars, ivars, xvars>>

DeleteMatch ==
    /\ \E match_id \in MatchIds : delete_match(match_id)
    /\ UNCHANGED <<rvars, mvars, ivars, xvars>>

UpdateMatchStatus ==
    /\ \E match_id \in MatchIds, new_status \in StatusInputs :
          update_match_status(match_id, new_status)
    /\ UNCHANGED <<rvars, mvars, ivars, xvars>>

UpdateMatchHost ==
    /\ \E match_id \in MatchIds, new_host_id \in UserIds :
          update_match_host(match_id, new_host_id)
    /\ UNCHANGED <<rvars, mvars, ivars, xvars>>

RemovePlayerFromMatch ==
    /\ \E match_id \in MatchIds, user_id \in UserIds :
          remove_player_from_match(match_id, user_id)
    /\ UNCHANGED <<rvars, mvars, ivars, xvars>>

GetPlayer ==
    /\ \E user_id \in UserIds : get_player(user_id)
    /\ UNCHANGED <<rvars, mvars, ivars, xvars>>

GetMatch ==
    /\ \E match_id \in MatchIds : get_match(match_id)
    /\ UNCHANGED <<rvars, mvars, ivars, xvars>>

GetActiveMatches ==
    /\ get_active_matches
    /\ UNCHANGED <<rvars, mvars, ivars, xvars>>

GetUserActiveMatch ==
    /\ \E user_id \in UserIds : get_user_active_match(user_id)
    /\ UNCHANGED <<rvars, mvars, ivars, xvars>>

GetMatchPlayers ==
    /\ \E match_id \in MatchIds : get_match_players(match_id)
    /\ UNCHANGED <<rvars, mvars, ivars, xvars>>

-----------------------------------------------------------------------------
(* utils.timeout_handler: asyncio.wait_for(coro, timeout) with TimeoutError *)
(* turned into BotError.  Time is counted in ticks of the event loop.       *)

MaxTimeout == 3
MaxSteps == 3

\* How the work ends when it is left to run, and what it does with the
\* CancelledError that wait_for throws into it when the deadline passes
Endings == {"return", "ValueError", "TimeoutError"}
OnCancel == {"propagate", "return", "ValueError"}

\* A call: the timeout, and a work that needs steps ticks to end
TimeoutCalls ==
    [timeout : 0..MaxTimeout, steps : 1..MaxSteps,
     ending : Endings, on_cancel : OnCancel]

TIdle ==
    /\ tpc = "idle"
    /\ tcall = [timeout |-> 0, steps |-> 1, ending |-> "return",
                on_cancel |-> "propagate"]
    /\ now = 0
    /\ progress = 0
    /\ tret = [kind |-> "none", value |-> "none", at |-> 0]


TInit ==
    /\ tpc = "call"
    /\ tcall \in TimeoutCalls
    /\ now = 0
    /\ progress = 0
    /\ tret = [kind |-> "none", value |-> "none", at |-> 0]

\* except asyncio.TimeoutError with nothing to catch
reraised_as_is(e) == IF e = "BotError" THEN "BotError" ELSE e

\* except asyncio.TimeoutError: raise BotError(...); any other exception of
\* the try block passes through
reraised(e) == IF e = "TimeoutError" THEN "BotError" ELSE e

t_returns(v) == [kind |-> "return", value |-> v, at |-> now]
t_raises(e) == [kind |-> "raise", value |-> reraised(e), at |-> now]

\* wait_for is entered: with timeout <= 0 the work, which has not started, is
\* cancelled at once and TimeoutError is raised; otherwise the timer is set.
WaitFor ==
    /\ tpc = "call"
    /\ IF tcall.timeout <= 0
       THEN tpc' = "raised" /\ tret' = t_raises("TimeoutError")
       ELSE tpc' = "waiting" /\ UNCHANGED tret
    /\ UNCHANGED <<tcall, now, progress>>
    /\ UNCHANGED <<rvars, mvars, ivars, dvars, hvars, cvars>>

\* A tick passes with the work running and the deadline not reached
WorkStep ==
    /\ tpc = "waiting"
    /\ progress < tcall.steps
    /\ now < tcall.timeout
    /\ now' = now + 1
    /\ progress' = progress + 1
    /\ UNCHANGED <<tpc, tcall, tret>>
    /\ UNCHANGED <<rvars, mvars, ivars, dvars, hvars, cvars>>

\* The work ends by itself: wait_for returns its result or raises its exception
WorkEnds ==
    /\ tpc = "waiting"
    /\ progress = tcall.steps
    /\ IF tcall.ending = "return"
       THEN tpc' = "returned" /\ tret' = t_returns("result")
       ELSE tpc' = "raised" /\ tret' = t_raises(tcall.ending)
    /\ UNCHANGED <<tcall, now, progress>>
    /\ UNCHANGED <<rvars, mvars, ivars, dvars, hvars, cvars>>

\* The deadline passes with the work still running: wait_for cancels the work
\* and waits until it has ended
TimerFires ==
    /\ tpc = "waiting"
    /\ progress < tcall.steps
    /\ now = tcall.timeout
    /\ tpc' = "cancelling"
    /\ UNCHANGED <<tcall, now, progress, tret>>
    /\ UNCHANGED <<rvars, mvars, ivars, dvars, hvars, cvars>>

\* The work ends on the CancelledError at once (TimeoutError is raised), or
\* handles it and, a tick later, returns a value or raises: wait_for hands
\* on fut.result().
WorkCancelled ==
    /\ tpc = "cancelling"
    /\ IF tcall.on_cancel = "propagate"
       THEN /\ tpc' = "raised"
            /\ tret' = t_raises("TimeoutError")
            /\ UNCHANGED now
       ELSE /\ now' = now + 1
            /\ IF tcall.on_cancel = "return"
               THEN /\ tpc' = "returned"
                    /\ tret' = [kind |-> "return", value |-> "result", at |-> now']
               ELSE /\ tpc' = "raised"
                    /\ tret' = [kind |-> "raise",
                                value |-> reraised(tcall.on_cancel), at |-> now']
    /\ UNCHANGED <<tcall, progress>>
    /\ UNCHANGED <<rvars, mvars, ivars, dvars, hvars, cvars>>

-----------------------------------------------------------------------------
(* utils.ErrorHandler.handle_command_error: the isinstance chain, with a   *)
(* CommandInvokeError unwrapped by a recursive call.  A chain of wrappers  *)
(* around an error is its depth; every call of the handler takes a frame   *)
(* of the interpreter's stack.                                             *)

MaxDepth == 3
MaxFrames == 2

\* sys.getrecursionlimit(), which the program does not change
RecursionLimit == 1000

ErrorKinds == {"ValidationError", "MatchError", "PlayerError", "BotError",
               "MissingRequiredArgument", "BadArgument", "CommandNotFound",
               "KeyError"}
ErrorTexts == {"no such team", "role"}

\* A chain as deep as the recursion limit is in the inputs next to the
\* shallow ones
Depths == (0..MaxDepth) \cup {RecursionLimit}

\* A call: the error, and the frames on the stack when the handler is called
HandlerCalls ==
    [error : [kind : ErrorKinds, text : ErrorTexts, depth : Depths],
     frames : 1..MaxFrames]

HIdle ==
    /\ hpc = "idle"
    /\ hcall = [error |-> [kind |-> "KeyError", text |-> "role", depth |-> 0],
                frames |-> 1]
    /\ herror = hcall.error
    /\ hframes = hcall.frames
    /\ sent = <<>>
    /\ errlog = <<>>
    /\ hret = "none"

HInit ==
    /\ hpc = "call"
    /\ hcall \in HandlerCalls
    /\ herror = hcall.error
    /\ hframes = hcall.frames
    /\ sent = <<>>
    /\ errlog = <<>>
    /\ hret = "none"

\* isinstance(error, commands.CommandInvokeError), without the branch
is_invoke_error_never(error) == error.depth < 0

\* isinstance(error, commands.CommandInvokeError)
is_invoke_error(error) == error.depth > 0

\* isinstance(error, cls) for the other classes of the chain: a wrapper is
\* none of them
isinstance(error, cls) == error.depth = 0 /\ error.kind = cls

\* error.original
original(error) == [error EXCEPT !.depth = @ - 1]

\* create_error_embed(title, description); the title's cross mark is left out
create_error_embed(title, description) ==
    [title |-> title, description |-> description, color |-> "ERROR"]

\* What one call of the handler does: it sends an embed on ctx, logs, and
\* returns, or it calls itself on another error
sends(embed) == [kind |-> "return", sent |-> <<embed>>, errlog |-> <<>>]
calls(error) == [kind |-> "call", error |-> error]

handle_command_error(error) ==
    IF isinstance(error, "ValidationError")
    THEN sends(create_error_embed("Invalid Input", error.text))
    ELSE IF isinstance(error, "MatchError")
    THEN sends(create_error_embed("Match Error", error.text))
    ELSE IF isinstance(error, "PlayerError")
    THEN sends(create_error_embed("Player Error", error.text))
    ELSE IF isinstance(error, "MissingRequiredArgument")
    THEN sends(create_error_embed("Missing Argument",
                                  "Missing required argument: " \o error.text))
    ELSE IF isinstance(error, "BadArgument")
    THEN sends(create_error_embed("Invalid Argument", error.text))
    ELSE IF isinstance(error, "CommandNotFound")
    THEN [kind |-> "return", sent |-> <<>>, errlog |-> <<>>]
    ELSE IF is_invoke_error(error)
    THEN calls(original(error))
    ELSE [kind   |-> "return",
          sent   |-> <<create_error_embed("Unexpected Error",
                         "An unexpected error occurred. Please try again later.")>>,
          errlog |-> <<error>>]

\* The handler is entered on herror with hframes frames below it.  A call
\* that the stack has no room for raises RecursionError, which no caller
\* catches; a return is followed by the return of every caller.
HandleCommandError ==
    /\ hpc = "call"
    /\ IF hframes + 1 > RecursionLimit
       THEN /\ hpc' = "raised"
            /\ hret' = "RecursionError"
            /\ UNCHANGED <<herror, hframes, sent, errlog>>
       ELSE LET out == handle_command_error(herror)
            IN  IF out.kind = "call"
                THEN /\ herror' = out.error
                     /\ hframes' = hframes + 1
                     /\ UNCHANGED <<hpc, hret, sent, errlog>>
                ELSE /\ hpc' = "returned"
                     /\ hret' = "None"
                     /\ sent' = sent \o out.sent
                     /\ errlog' = errlog \o out.errlog
                     /\ UNCHANGED <<herror, hframes>>
    /\ UNCHANGED <<hcall, rvars, mvars, ivars, dvars, tvars, cvars>>

-----------------------------------------------------------------------------
(* The connection pool under concurrent add_player_to_match calls.  Each   *)
(* call is a task of the event loop; it can be suspended at every await.   *)
(* pool.acquire() without a timeout waits until a connection is free.      *)

MaxCallers == 11

\* asyncpg.create_pool(..., max_size=10, ...)
PoolMaxSize == 10

\* Where a call is: before its own acquire, holding its connection and
\* about to acquire inside create_or_update_player, holding both, back in
\* add_player_to_match with its own connection, and returned
Positions == {"start", "outer", "inner", "insert", "done"}

\* No call is running
CIdle ==
    /\ max_size = PoolMaxSize
    /\ apc = [p \in Positions |-> 0]
    /\ in_use = 0

XIdle == TIdle /\ HIdle /\ CIdle

\* Some calls are started together; apc counts the calls at each position
CInit ==
    /\ max_size = PoolMaxSize
    /\ \E n \in 1..MaxCallers :
          apc = [p \in Positions |-> IF p = "start" THEN n ELSE 0]
    /\ in_use = 0

move(from, to) == [apc EXCEPT ![from] = @ - 1, ![to] = @ + 1]

\* add_player_to_match: async with self.pool.acquire() as conn
AcquireOuter ==
    /\ apc["start"] > 0
    /\ in_use < max_size
    /\ in_use' = in_use + 1
    /\ apc' = move("start", "outer")
    /\ UNCHANGED <<max_size, rvars, mvars, ivars, dvars, tvars, hvars>>

\* create_or_update_player: async with self.pool.acquire() as conn, entered
\* while the caller's connection is held
AcquireInner ==
    /\ apc["outer"] > 0
    /\ in_use < max_size
    /\ in_use' = in_use + 1
    /\ apc' = move("outer", "inner")
    /\ UNCHANGED <<max_size, rvars, mvars, ivars, dvars, tvars, hvars>>

\* create_or_update_player: fetchrow is done, its block is left
ReleaseInner ==
    /\ apc["inner"] > 0
    /\ in_use' = in_use - 1
    /\ apc' = move("inner", "insert")
    /\ UNCHANGED <<max_size, rvars, mvars, ivars, dvars, tvars, hvars>>

\* add_player_to_match: the insert is done or has raised, its block is left
ReleaseOuter ==
    /\ apc["insert"] > 0
    /\ in_use' = in_use - 1
    /\ apc' = move("insert", "done")
    /\ UNCHANGED <<max_size, rvars, mvars, ivars, dvars, tvars, hvars>>

-----------------------------------------------------------------------------
(* Specifications *)

ResolverInit == RInit /\ MInit /\ IIdle /\ DInit /\ XIdle
ResolverNext ==
    \/ EvaluateAction
    \/ GetActionRange
    \/ ValidateTeamFormation
    \/ CalculateSuccessProbability
SpecResolver == ResolverInit /\ [][ResolverNext]_vars

MatchInit == RIdle /\ MInit /\ IIdle /\ DInit /\ XIdle
MatchNext == UpdateScore \/ SwitchPossession \/ UpdateStats \/ GetMatchSummary
SpecMatch == MatchInit /\ [][MatchNext]_vars

InitializeInit == RIdle /\ MInit /\ IInit /\ DInit /\ XIdle
InitializeNext ==
    \/ ForAttempt
    \/ CreatePoolOk
    \/ CreatePoolFail
    \/ CreateTablesOk
    \/ CreateTablesFail
    \/ Except
SpecInitialize == InitializeInit /\ [][InitializeNext]_vars

DbInit == RIdle /\ MInit /\ IIdle /\ DInit /\ XIdle
DbNext ==
    \/ InitDatabase
    \/ CreateOrUpdatePlayer
    \/ CreateMatch
    \/ AddPlayerToMatch
    \/ GetPlayer
    \/ GetMatch
    \/ GetActiveMatches
    \/ GetUserActiveMatch
    \/ GetMatchPlayers
SpecDb == DbInit /\ [][DbNext]_vars

TimeoutInit == RIdle /\ MInit /\ IIdle /\ DInit /\ TInit /\ HIdle /\ CIdle
TimeoutNext == WaitFor \/ WorkStep \/ WorkEnds \/ TimerFires \/ WorkCancelled
SpecTimeout == TimeoutInit /\ [][TimeoutNext]_vars

HandlerInit == RIdle /\ MInit /\ IIdle /\ DInit /\ TIdle /\ HInit /\ CIdle
HandlerNext == HandleCommandError
SpecHandler == HandlerInit /\ [][HandlerNext]_vars

PoolInit == RIdle /\ MInit /\ IIdle /\ DInit /\ TIdle /\ HIdle /\ CInit
PoolNext == AcquireOuter \/ AcquireInner \/ ReleaseInner \/ ReleaseOuter
SpecPool == PoolInit /\ [][PoolNext]_vars

\* The writes whose statement is fixed, on matches and match_players
WritesNext ==
    \/ InitDatabase
    \/ CreateMatch
    \/ AddPlayerToMatch
    \/ RemovePlayerFromMatch
    \/ DeleteMatch
    \/ UpdateMatchStatus
    \/ UpdateMatchHost
SpecWrites == DbInit /\ [][WritesNext]_vars

\* The store after init_database(), create_or_update_player(1, "ann", None),
\* create_match("M1", 1, 10) and add_player_to_match("M1", 1, "ann", "A", "GK")
SeededInit ==
    /\ RIdle /\ MInit /\ IIdle /\ XIdle
    /\ pool = "Pool"
    /\ players = (1 :> new_player(1, "ann", "ann"))
    /\ matches = <<new_match("M1", 1, 10)>>
    /\ match_players = <<[match_id |-> "M1", user_id |-> 1, team |-> "A",
                          role |-> "GK", is_captain |-> FALSE]>>
    /\ dret = returns("add_player_to_match", "bool", TRUE)

\* The updates whose SET list is built from the call, on stored and on
\* missing rows
FieldSetsNext ==
    \/ UpdatePlayerStats
    \/ UpdateMatchScore
    \/ UpdatePlayerRole
SpecFieldSets == SeededInit /\ [][FieldSetsNext]_vars

\* The columns of a match that are written after its creation
ScoresNext ==
    \/ InitDatabase
    \/ CreateMatch
    \/ UpdateMatchScore
    \/ UpdateTeamName
SpecScores == DbInit /\ [][ScoresNext]_vars

\* A player's row and counters
PlayersNext ==
    \/ InitDatabase
    \/ CreateOrUpdatePlayer
    \/ UpdatePlayerStats
    \/ GetPlayer
SpecPlayers == DbInit /\ [][PlayersNext]_vars

\* The members of a match
MembersNext ==
    \/ InitDatabase
    \/ CreateMatch
    \/ AddPlayerToMatch
    \/ RemovePlayerFromMatch
    \/ UpdatePlayerRole
    \/ DeleteMatch
SpecMembers == DbInit /\ [][MembersNext]_vars

-----------------------------------------------------------------------------
(* Properties of the action resolver, under SpecResolver *)

Evaluated == rpc = "return" /\ rcall.op = "evaluate_action"

\* The range of the evaluated call, and whether both submissions are inside it
CallRange ==
    get_action_range(rcall.attacker_role, rcall.defender_role, rcall.scenario)

Inside(x) == CallRange[1] <= x /\ x <= CallRange[2]

BothInside == Inside(rcall.attacker_action) /\ Inside(rcall.defender_action)

\* The invalid_action description's role part
NamedRole(outcome) == outcome.description[2]

\* C1: with (lo, hi) the resolved range of the call: an attacker integer outside
\* [lo, hi] gives invalid_action naming the attacker role; otherwise a defender
\* integer outside [lo, hi] gives invalid_action naming the defender role; and
\* with both inside the result is never invalid_action.
C1_RangeCheck ==
    Evaluated =>
        IF ~Inside(rcall.attacker_action)
        THEN /\ rret.result = "invalid_action"
             /\ NamedRole(rret) = rcall.attacker_role
        ELSE IF ~Inside(rcall.defender_action)
        THEN /\ rret.result = "invalid_action"
             /\ NamedRole(rret) = rcall.defender_role
        ELSE rret.result # "invalid_action"

\* C1 witness: the attacker is inside the range at its upper end, the defender
\* is above it, and the call was rejected naming the defender.
C1_Witness ==
    /\ Evaluated
    /\ rcall.attacker_action = CallRange[2]
    /\ rcall.defender_action > CallRange[2]
    /\ rcall.attacker_role # rcall.defender_role
    /\ rret.result = "invalid_action"
    /\ NamedRole(rret) = rcall.defender_role

\* C2: attacker integer strictly greater than the defender's, both in range:
\* goal when the scenario is the string "shooting" and the defender role
\* (compared in upper case) is GK, success in every other case.
C2_AttackerGreater ==
    (Evaluated /\ BothInside /\ rcall.attacker_action > rcall.defender_action) =>
        rret.result = IF rcall.scenario = shooting /\ upper(rcall.defender_role) = R_GK
                      THEN "goal"
                      ELSE "success"

\* C2 witness: a goal scored with the larger number against a goalkeeper.
C2_Witness ==
    /\ Evaluated
    /\ rcall.attacker_action > rcall.defender_action
    /\ rcall.scenario = shooting
    /\ rcall.defender_role = R_GK
    /\ rret.result = "goal"

\* C3: equal in-range integers: save whenever the defender role is GK, foul
\* when the attacker role is ST and the defender role is DEF, interception for
\* every other role pair (roles compared in upper case).
C3_EqualNumbers ==
    (Evaluated /\ BothInside /\ rcall.attacker_action = rcall.defender_action) =>
        rret.result =
            IF upper(rcall.defender_role) = R_GK THEN "save"
            ELSE IF upper(rcall.attacker_role) = R_ST
                    /\ upper(rcall.defender_role) = R_DEF THEN "foul"
            ELSE "interception"

\* C3 witness: equal numbers of a striker and a defender gave a foul.
C3_Witness ==
    /\ Evaluated
    /\ rcall.attacker_action = rcall.defender_action
    /\ rcall.attacker_role = R_ST
    /\ rcall.defender_role = R_DEF
    /\ rret.result = "foul"

\* C4: defender integer strictly greater than the attacker's, both in range:
\* save when the defender role is GK, blocked for every other defender role,
\* whatever the scenario and the attacker role.
C4_DefenderGreater ==
    (Evaluated /\ BothInside /\ rcall.defender_action > rcall.attacker_action) =>
        rret.result = IF upper(rcall.defender_role) = R_GK THEN "save" ELSE "blocked"

\* C4 witness: a goalkeeper written in mixed case saved with the larger number.
C4_Witness ==
    /\ Evaluated
    /\ rcall.defender_action > rcall.attacker_action
    /\ rcall.defender_role = <<"g","K">>
    /\ rret.result = "save"

\* C5: every outcome of evaluate_action, the invalid_action outcome included,
\* carries both a description and a next_action tag.
C5_DescriptionAndNextAction ==
    Evaluated => {"description", "next_action"} \subseteq DOMAIN rret

\* C6: get_action_range returns (1, 3) for every triple whose normalised key
\* (roles in upper case, scenario in lower case) is not a key of the table, and
\* the table's range for every triple whose normalised key is one.
C6_ActionRange ==
    (rpc = "return" /\ rcall.op = "get_action_range") =>
        LET key == <<upper(rcall.attacker_role), upper(rcall.defender_role),
                     lower(rcall.scenario)>>
            hits == {i \in 1..Len(ranges) : ranges[i][1] = key}
        IN  IF hits = {}
            THEN rret = <<1, 3>>
            ELSE \A i \in hits : rret = ranges[i][2]

\* C6 witness: a lower-case striker against GK in "SHOOTING" got the table's
\* range (1, 6).
C6_Witness ==
    /\ rpc = "return" /\ rcall.op = "get_action_range"
    /\ rcall.attacker_role = <<"s","t">>
    /\ rcall.defender_role = R_GK
    /\ rcall.scenario = upper(shooting)
    /\ rret = <<1, 6>>

\* C8: validate_team_formation returns True exactly when the roster has at
\* least one player of each of GK, DEF, MF and ST (roles in any case);
\* otherwise False with a message naming the first missing role in the order
\* GK, DEF, MF, ST.
RosterHas(role) ==
    \E p \in DOMAIN rcall.team_players : upper(rcall.team_players[p]) = role

C8_TeamFormation ==
    (rpc = "return" /\ rcall.op = "validate_team_formation") =>
        LET order == <<R_GK, R_DEF, R_MF, R_ST>>
            missing == {i \in 1..4 : ~RosterHas(order[i])}
        IN  IF missing = {}
            THEN rret[1] = TRUE
            ELSE /\ rret[1] = FALSE
                 /\ \E i \in missing :
                       /\ \A j \in missing : i <= j
                       /\ rret[2][4] = order[i]

\* C8 witness: a roster with DEF, MF and ST but no goalkeeper was refused with
\* a message naming GK.
C8_Witness ==
    /\ rpc = "return" /\ rcall.op = "validate_team_formation"
    /\ RosterHas(R_DEF) /\ RosterHas(R_MF) /\ RosterHas(R_ST) /\ ~RosterHas(R_GK)
    /\ rret[1] = FALSE
    /\ rret[2][4] = R_GK

-----------------------------------------------------------------------------
(* Properties of MatchState, under SpecMatch *)

\* C7: a summary returned by get_match_summary is an immutable snapshot: no
\* later update_score, switch_possession or update_stats changes a value
\* (score, possession, per-team stats, turn count) read from it.
C7_SnapshotImmutable ==
    [][(summary # <<>> /\ summary' = summary)
          => summary_view(summary[1])' = summary_view(summary[1])]_vars

\* The counters a reader of the match sees: self.stats[t][k]
counter(t, k) == team_stats(stats, t)[k]

\* The attributes of the match other than its counters
match_fields == <<score, possession, turn_count, current_scenario,
                  match_time, status>>

-----------------------------------------------------------------------------
(* Properties of DatabaseManager.initialize, under SpecInitialize *)

Ended == ipc \in {"returned", "raised"}

\* C9: initialize(max_retries) makes at most max_retries attempts, sleeps
\* 1, 2, 4, ... seconds between consecutive failed attempts and not after the
\* last one, returns only after an attempt in which the pool and the tables
\* were both created, and raises whenever it ends without such an attempt.
C9_Initialize ==
    /\ attempts <= max_retries
    /\ \A i \in 1..Len(sleeps) : sleeps[i] = 2 ^ (i - 1)
    /\ Len(sleeps) <= attempts
    /\ (Ended /\ attempts > 0) => Len(sleeps) = attempts - 1
    /\ ipc = "returned" => (attempts > 0 /\ ipool = "Pool")

-----------------------------------------------------------------------------
(* Properties of the persistence layer, under SpecDb *)

ReadOps == {"get_player", "get_match", "get_active_matches",
            "get_user_active_match", "get_match_players"}

AbsentOrEmpty(r) ==
    /\ r.kind = "return"
    /\ \/ r.type = "None"
       \/ r.type = "list" /\ Len(r.value) = 0

\* C10: every read operation called while the pool is not initialized returns
\* an absent or empty result and never raises.
C10_ReadsWithoutPool ==
    (pool = None /\ dret.op \in ReadOps) => AbsentOrEmpty(dret)

-----------------------------------------------------------------------------
(* Properties of the writes, under SpecWrites *)

store == <<players, matches, match_players>>

WriteOps == {"create_or_update_player", "create_match", "add_player_to_match",
             "remove_player_from_match", "delete_match", "update_match_status",
             "update_match_host"}

\* The call returned the boolean b
ReturnsBool(r, b) == r.kind = "return" /\ r.type = "bool" /\ r.value = b

-----------------------------------------------------------------------------
(* Properties of the field-set updates, under SpecFieldSets *)

FieldSetOps == {"update_player_stats", "update_match_score",
                "update_player_role", "update_team_name"}

\* The call returned False, sent no statement and left every row as it was
Refused ==
    /\ ReturnsBool(dret', FALSE)
    /\ dret'.stmt = NoStmt
    /\ store' = store

NoScalar(stat_fields) == \A i \in DOMAIN stat_fields : stat_fields[i].iterable

NoScoreField(score_data) == keys_of(score_data) \cap ScoreColumns = {}

\* C12: update_player_stats with no fields or only list-like values,
\* update_match_score with no fields or only fields outside the allow-list,
\* and update_player_role with team, role and is_captain all absent each
\* return False, send no statement and leave the stored rows unchanged.
C12_NoEffectiveFields ==
    [][/\ dret'.op = "update_player_stats" =>
             \A u \in UserIds, sf \in StatsInputs :
                (NoScalar(sf) /\ update_player_stats(u, sf)) => Refused
       /\ dret'.op = "update_match_score" =>
             \A m \in MatchIds, sd \in ScoreInputs :
                (NoScoreField(sd) /\ update_match_score(m, sd)) => Refused
       /\ dret'.op = "update_player_role" =>
             \A m \in MatchIds, u \in UserIds :
                update_player_role(m, u, None, None, <<>>) => Refused
    ]_vars

\* update_match_score refused a call on a match whose row had been written
C12_Witness ==
    /\ dret.op = "update_match_score"
    /\ ReturnsBool(dret, FALSE)
    /\ dret.stmt = NoStmt
    /\ "M1" \in match_ids
    /\ match_row("M1").score_a = 3

\* The columns named in the SET list of the statement a call sent
set_columns(r) == {r.stmt.set[i][1] : i \in DOMAIN r.stmt.set}

Sent(r) == r.op \in FieldSetOps /\ r.stmt.table # "none"

\* C13: in every dynamically built update the column identifiers in the SQL
\* text are allow-listed names: counters, rating and updated_at for
\* update_player_stats, the eight score fields for update_match_score, team,
\* role and is_captain for update_player_role, team_a_name and team_b_name for
\* update_team_name.
C13_AllowListedColumns ==
    Sent(dret) =>
        /\ dret.op = "update_player_stats" =>
              set_columns(dret) \subseteq PlayerColumns \cup {"updated_at"}
        /\ dret.op = "update_match_score" =>
              set_columns(dret) \subseteq ScoreColumns
        /\ dret.op = "update_player_role" =>
              set_columns(dret) \subseteq {"team", "role", "is_captain"}
        /\ dret.op = "update_team_name" =>
              set_columns(dret) \subseteq TeamNameColumns

-----------------------------------------------------------------------------
(* Properties of the score columns, under SpecScores *)

\* The supplied fields that are in the list of the eight score fields, in
\* call order
in_list(score_data) ==
    LET listed(f) == f.key \in ScoreColumns IN SelectSeq(score_data, listed)

supplied(score_data, column) ==
    (CHOOSE f \in {score_data[i] : i \in DOMAIN score_data} : f.key = column).value

\* C14: update_match_score writes exactly the supplied fields that are in the
\* allow-list: fields outside it are ignored, every other column of the match
\* and every other row stay unchanged, and the statement numbers the k
\* accepted fields $1..$k, in call order, with the match id as $k+1.
C14_ScoreFrame ==
    [][dret'.op = "update_match_score" =>
         \A m \in MatchIds, sd \in ScoreInputs : update_match_score(m, sd) =>
            LET acc == in_list(sd)
                k == Len(acc)
                q == match_score_query(m, sd)
            IN  /\ q.set = [i \in 1..k |-> <<acc[i].key, i>>]
                /\ q.where = <<<<"match_id", k + 1>>>>
                /\ Len(q.values) = k + 1
                /\ \A i \in 1..k : q.values[i] = acc[i].value
                /\ q.values[k + 1] = m
                /\ (k > 0 /\ dret'.kind = "return") => dret'.stmt = text_of(q)
                /\ match_ids' = match_ids
                /\ \A m2 \in match_ids : \A c \in DOMAIN match_row(m2) :
                      match_row(m2)'[c] =
                         IF m2 = m /\ c \in keys_of(acc)
                         THEN supplied(sd, c) ELSE match_row(m2)[c]
                /\ players' = players /\ match_players' = match_players
    ]_vars

\* A call with a field outside the list and one inside it wrote a stored match
C14_Witness ==
    /\ dret.op = "update_match_score"
    /\ ReturnsBool(dret, TRUE)
    /\ dret.stmt.set = <<<<"saves_b", 1>>>>
    /\ dret.stmt.where = <<<<"match_id", 2>>>>
    /\ Len(matches) = 2

-----------------------------------------------------------------------------
(* Properties of the members of a match, under SpecMembers *)

\* UNIQUE(match_id, user_id)
OneRowPerMember ==
    \A i, j \in DOMAIN match_players :
        (/\ match_players[i].match_id = match_players[j].match_id
         /\ match_players[i].user_id = match_players[j].user_id) => i = j

-----------------------------------------------------------------------------
(* Properties of a match's removal and lifecycle, under SpecWrites *)

\* C16: after delete_match(m) succeeds, get_match(m) returns absent and
\* get_match_players(m) returns the empty list, whatever players had joined
\* m; the players and the rows of the other matches are unchanged.
C16_DeleteCascades ==
    [][dret'.op = "delete_match" =>
         \A m \in MatchIds : (delete_match(m) /\ ReturnsBool(dret', TRUE)) =>
            LET other(r) == r.match_id # m
            IN  /\ get_match_result(m)'.type = "None"
                /\ get_match_players_result(m)'.kind = "return"
                /\ get_match_players_result(m)'.type = "list"
                /\ Len(get_match_players_result(m)'.value) = 0
                /\ players' = players
                /\ matches' = SelectSeq(matches, other)
                /\ match_players' = SelectSeq(match_players, other)
    ]_vars

\* A match was deleted while a player who had joined and another match stay
C16_Witness ==
    /\ dret.op = "delete_match"
    /\ ReturnsBool(dret, TRUE)
    /\ Len(matches) = 1
    /\ player_ids # {}
    /\ match_players = <<>>

\* The place of a status in waiting -> ongoing -> ended
Statuses == <<"waiting", "ongoing", "ended">>
stage(st) == CHOOSE i \in DOMAIN Statuses : Statuses[i] = st

\* C18: a match is created in status waiting and its status only moves
\* forward along waiting -> ongoing -> ended, never back and never to a
\* status outside these three, until the match is removed.
C18_StatusMovesForward ==
    [][\A m \in MatchIds :
         /\ (m \notin match_ids /\ m \in match_ids') =>
               match_row(m)'.status = "waiting"
         /\ (m \in match_ids /\ m \in match_ids') =>
               /\ match_row(m)'.status \in {"waiting", "ongoing", "ended"}
               /\ stage(match_row(m)'.status) >= stage(match_row(m).status)
    ]_vars

-----------------------------------------------------------------------------
(* Properties of the member rows, under SpecMembers *)

\* C17: in every reachable state every match_players row has team in {A, B}
\* and role in {ST, MF, DEF, GK}.
C17_TeamAndRoleSet ==
    \A i \in DOMAIN match_players :
        /\ match_players[i].team \in {"A", "B"}
        /\ match_players[i].role \in {"ST", "MF", "DEF", "GK"}

-----------------------------------------------------------------------------
(* Properties of the duplicated score columns, under SpecScores *)

\* C19: in every reachable state of a match row team_a_score = score_a and
\* team_b_score = score_b.
C19_ScoresInSync ==
    \A i \in DOMAIN matches :
        /\ matches[i].team_a_score = matches[i].score_a
        /\ matches[i].team_b_score = matches[i].score_b

-----------------------------------------------------------------------------
(* Properties of a player's row, under SpecPlayers *)

\* The scalar fields of a call, the ones update_player_stats writes
scalars(stat_fields) ==
    LET scalar(f) == ~f.iterable IN SelectSeq(stat_fields, scalar)

-----------------------------------------------------------------------------
(* Properties of timeout_handler, under SpecTimeout *)

TDone == tpc \in {"returned", "raised"}

\* The work, left alone, ends before the deadline / the deadline comes first
EndsBeforeDeadline == 0 < tcall.timeout /\ tcall.steps < tcall.timeout
DeadlineFirst == tcall.timeout < tcall.steps

\* C21 as stated: timeout_handler returns the work's result when the work
\* finishes before the deadline, raises BotError when the deadline passes
\* first, never returns a result after the deadline and never lets a raw
\* TimeoutError escape.
C21_DeadlineAlwaysSignalled ==
    TDone =>
        /\ (EndsBeforeDeadline /\ tcall.ending = "return") =>
              (tret.kind = "return" /\ tret.value = "result")
        /\ DeadlineFirst => (tret.kind = "raise" /\ tret.value = "BotError")
        /\ tret.kind = "return" => tret.at <= tcall.timeout
        /\ tret.kind = "raise" => tret.value # "TimeoutError"

\* C21, amended: timeout_handler returns the work's result when the work
\* finishes before the deadline and never lets a raw TimeoutError escape; when
\* the deadline passes first the work is cancelled, and the handler raises
\* BotError if the work ends on the cancellation or had not started (timeout
\* 0), but returns the work's late result if the work handles the cancellation
\* and returns, and passes on the exception the work raises instead.
C21_TimeoutHandler ==
    TDone =>
        /\ (EndsBeforeDeadline /\ tcall.ending = "return") =>
              (tret.kind = "return" /\ tret.value = "result")
        /\ (DeadlineFirst /\ (tcall.on_cancel = "propagate" \/ tcall.timeout = 0)) =>
              (tret.kind = "raise" /\ tret.value = "BotError"
                 /\ tret.at = tcall.timeout)
        /\ (DeadlineFirst /\ tcall.on_cancel = "return" /\ tcall.timeout > 0) =>
              (tret.kind = "return" /\ tret.value = "result"
                 /\ tret.at > tcall.timeout)
        /\ (DeadlineFirst /\ tcall.on_cancel = "ValueError" /\ tcall.timeout > 0) =>
              (tret.kind = "raise" /\ tret.value = "ValueError")
        /\ (tret.kind = "return" /\ tret.at > tcall.timeout) =>
              (DeadlineFirst /\ tcall.on_cancel = "return")
        /\ tret.kind = "raise" => tret.value # "TimeoutError"

\* The deadline passed after two ticks of a work that ends on cancellation
C21_Witness ==
    /\ tpc = "raised"
    /\ tcall.timeout = 2
    /\ tcall.steps = 3
    /\ progress = 2
    /\ tcall.on_cancel = "propagate"
    /\ tret.value = "BotError"

-----------------------------------------------------------------------------
(* Properties of calculate_success_probability, under SpecResolver *)

Calculated == rpc = "return" /\ rcall.op = "calculate_success_probability"

KnownPairs ==
    {<<R_ST, R_DEF>>, <<R_ST, R_MF>>, <<R_ST, R_GK>>, <<R_MF, R_DEF>>,
     <<R_MF, R_GK>>, <<R_DEF, R_ST>>}

KnownScenarios == {shooting, dribbling, passing, corner_kick, free_kick, penalty}

CallPair == <<upper(rcall.attacker_role), upper(rcall.defender_role)>>

\* C22: calculate_success_probability returns a value in [0.1, 0.9]; it is
\* clamp(base + modifier) with base the role-pair entry or 0.5 for an unknown
\* pair and modifier the scenario entry or 0 for an unknown scenario, so an
\* unknown pair with an unknown scenario gives 0.5 and penalty gives 0.9.
C22_SuccessProbability ==
    Calculated =>
        LET base == IF CallPair \in KnownPairs THEN role_advantages(CallPair) ELSE 50
            modifier == IF lower(rcall.scenario) \in KnownScenarios
                        THEN scenario_modifiers(lower(rcall.scenario)) ELSE 0
            sum == base + modifier
        IN  /\ 10 <= rret /\ rret <= 90
            /\ rret = IF sum < 10 THEN 10 ELSE IF sum > 90 THEN 90 ELSE sum
            /\ (CallPair \notin KnownPairs
                  /\ lower(rcall.scenario) \notin KnownScenarios) => rret = 50
            /\ lower(rcall.scenario) = penalty => rret = 90

\* A penalty in upper case between an unknown pair of roles
C22_Witness ==
    /\ Calculated
    /\ rcall.scenario = upper(penalty)
    /\ rcall.attacker_role = R_ANY
    /\ rret = 90

-----------------------------------------------------------------------------
(* Properties of handle_command_error, under SpecHandler *)

HDone == hpc \in {"returned", "raised"}

\* The error e that the wrappers of the call are around
wrapped_error == [hcall.error EXCEPT !.depth = 0]

Wrapped == hcall.error.depth > 0

\* The kinds the claim gives a title for; every kind the chain of isinstance
\* tests does not know is titled Unexpected Error
titled(kind) ==
    CASE kind = "ValidationError" -> <<"Invalid Input">>
      [] kind = "MatchError" -> <<"Match Error">>
      [] kind = "PlayerError" -> <<"Player Error">>
      [] kind \in {"BotError", "KeyError"} -> <<"Unexpected Error">>
      [] OTHER -> <<>>

\* The result the user sees is the result of handling e directly
AsHandledDirectly ==
    /\ hpc = "returned"
    /\ sent = handle_command_error(wrapped_error).sent
    /\ Len(sent) = IF wrapped_error.kind = "CommandNotFound" THEN 0 ELSE 1
    /\ titled(wrapped_error.kind) # <<>> =>
          sent[1].title = titled(wrapped_error.kind)[1]

\* The handler's calls for the wrappers of the chain all fit on the stack
FitsTheStack == hcall.frames + hcall.error.depth < RecursionLimit

-----------------------------------------------------------------------------
(* Properties of the pool under concurrent calls, under SpecPool *)

\* Every connection of the pool is out, and each is held by a call that
\* waits in create_or_update_player for another one
AllHeldByWaiters ==
    /\ in_use = max_size
    /\ apc["outer"] = max_size
    /\ apc["inner"] = 0 /\ apc["insert"] = 0

\* C25: concurrent add_player_to_match calls always all complete: with the
\* pool bounded at N connections, no interleaving of any number of
\* simultaneous calls reaches a state where every pooled connection is held
\* by a caller waiting for a further connection.
C25_NeverAllHeldByWaiters == ~AllHeldByWaiters

-----------------------------------------------------------------------------
(* Properties of evaluate_action's reading of its strings, under SpecResolver *)

\* Two spellings that differ in letter case only
same_letters(x, y) == upper(x) = upper(y)

\* C26: evaluate_action is insensitive to the letter case of its role and
\* scenario arguments: for all integers, roles and scenarios, changing the
\* case of the attacker role, defender role or scenario changes neither the
\* range used for validation nor the resulting outcome.
C26_CaseInsensitive ==
    (rpc = "return" /\ rcall.op = "evaluate_action") =>
       \A a \in RoleInputs, d \in RoleInputs, s \in ScenarioInputs :
          (/\ same_letters(a, rcall.attacker_role)
           /\ same_letters(d, rcall.defender_role)
           /\ same_letters(s, rcall.scenario)) =>
             /\ get_action_range(a, d, s) =
                   get_action_range(rcall.attacker_role, rcall.defender_role,
                                    rcall.scenario)
             /\ evaluate_action(rcall.attacker_action, rcall.defender_action,
                                a, d, s).result = rret.result

=============================================================================
